---- MODULE Spec2Model ----
(***************************************************************************)
(* Model of the MLOS optimizer core:                                       *)
(*   - BaseOptimizer (mlos_core/optimizers/optimizer.py): the observation  *)
(*     history, the pending list, and the space-adapter wrapping of        *)
(*     register / suggest;                                                 *)
(*   - HomogeneousRandomForestRegressionModel (fit / predict).             *)
(* Data frames are sequences of rows; a frame built by the caller carries  *)
(* the default positional index 1..n, as pandas gives it.                  *)
(***************************************************************************)
EXTENDS Integers, Sequences, FiniteSets, TLC

(***************************************************************************)
(* Bounds of the model.                                                    *)
(***************************************************************************)
MaxObs == 2
MaxRows == 2
MaxScore == 1
MaxPending == 1
MaxFitRows == 3
MaxFits == 2
NEstimators == 2
RngStates == 5
MaxPredictRows == 2
MaxPredicts == 1
MaxMean == 1
MaxVariance == 1

(***************************************************************************)
(* Values.                                                                 *)
(***************************************************************************)
\* configurations of the original space and of the adapter's target space
Configs == {"a", "b"}
TargetConfigs == {"x", "y"}
Scores == 0 .. MaxScore
None == "None"
\* the only parameter space the caller optimizes, and the spaces an adapter
\* may declare as its original space
ParameterSpace == "P"
TargetSpace == "T"
\* a context frame, when the caller supplies one
Contexts == {None, "ctx"}

\* non-empty frames of at most MaxRows rows over S
Frames(S) == UNION {[1 .. n -> S] : n \in 1 .. MaxRows}

\* the space adapters a caller can pass to the constructor
NoAdapter == [orig_parameter_space |-> None, target_parameter_space |-> None]
Adapters ==
    {NoAdapter} \cup {[orig_parameter_space |-> o, target_parameter_space |-> TargetSpace] :
                         o \in {"P", "Q"}}

(***************************************************************************)
(* Space adapter (consumed interface): a bijection between the spaces.     *)
(***************************************************************************)
transformRow(x) == IF x = "x" THEN "a" ELSE "b"
inverse_transformRow(c) == IF c = "a" THEN "x" ELSE "y"
transform(frame) == [i \in 1 .. Len(frame) |-> transformRow(frame[i])]
inverse_transform(frame) == [i \in 1 .. Len(frame) |-> inverse_transformRow(frame[i])]

VARIABLES
    constructed,                \* "no" | "ok" | "failed"  (outcome of __init__)
    parameter_space,
    optimizer_parameter_space,
    space_adapter,              \* self._space_adapter
    observations,               \* self._observations
    pending_observations,       \* self._pending_observations
    sub_register_args,          \* what the subclass's _register last received
    sub_suggested,              \* what the subclass's _suggest last returned
    model_data,                 \* what the subclass accepted in _register
    init_args,                  \* the arguments __init__ was called with
    register_log,               \* the arguments of every register call, in call order
    ret,                        \* outcome of the last call
    \* HomogeneousRandomForestRegressionModel
    samples_fraction,           \* model_config.samples_fraction_per_estimator
    trees,                      \* self._decision_trees
    np_random,                  \* state of numpy's global random source
    nfits,                      \* number of fit calls made
    prev_fit,                   \* record of the fit call before the last one
    last_fit,                   \* record of the last fit call
    npredicts,                  \* number of predict calls made
    predictions                 \* outcome of the last predict call

optimizer_vars ==
    <<constructed, parameter_space, optimizer_parameter_space, space_adapter,
      observations, pending_observations, sub_register_args, sub_suggested,
      model_data, init_args, register_log, ret>>

forest_vars ==
    <<samples_fraction, trees, np_random, nfits, prev_fit, last_fit, npredicts,
      predictions>>

vars == <<optimizer_vars, forest_vars>>

Returned(op, val) == [op |-> op, exc |-> None, val |-> val]
Raised(op, exc) == [op |-> op, exc |-> exc, val |-> <<>>]

(***************************************************************************)
(* pandas helpers                                                          *)
(***************************************************************************)
RECURSIVE Concat(_)
\* pd.concat of a list of frames: the rows, in list order
Concat(frames) ==
    IF frames = <<>> THEN <<>> ELSE Head(frames) \o Concat(Tail(frames))

\* the index of a frame the caller built: positions 1..n
RangeIndex(frame) == [i \in 1 .. Len(frame) |-> i]

IsUnique(index) ==
    \A i, j \in 1 .. Len(index) : index[i] = index[j] => i = j

\* the None entries of a list are dropped by pd.concat
NotNone(seq) == SelectSeq(seq, LAMBDA c : c # None)

(***************************************************************************)
(* BaseOptimizer.__init__                                                  *)
(***************************************************************************)
\* (mutation of AdapterMismatch: the check of line 31 is left out)
AdapterMismatch_unchecked(ps, adapter) == FALSE

\* line 31: the adapter's declared original space must be the given one
AdapterMismatch(ps, adapter) ==
    adapter # NoAdapter /\ adapter.orig_parameter_space # ps

\* lines 28-29
OptimizerSpaceOf(ps, adapter) ==
    IF adapter = NoAdapter THEN ps ELSE adapter.target_parameter_space

Construct(ps, adapter) ==
    /\ constructed = "no"
    /\ init_args' = <<ps, adapter>>
    /\ parameter_space' = ps
    /\ optimizer_parameter_space' = OptimizerSpaceOf(ps, adapter)
    /\ IF AdapterMismatch(ps, adapter)
       THEN /\ constructed' = "failed"
            /\ ret' = Raised("__init__", "ValueError")
            /\ UNCHANGED <<space_adapter, observations, pending_observations>>
       ELSE /\ constructed' = "ok"
            /\ space_adapter' = adapter
            /\ observations' = <<>>
            /\ pending_observations' = <<>>
            /\ ret' = Returned("__init__", <<>>)
    /\ UNCHANGED <<sub_register_args, sub_suggested, model_data, register_log>>
    /\ UNCHANGED forest_vars

(***************************************************************************)
(* The subclass (abstract in BaseOptimizer): _register, _suggest,          *)
(* register_pending.                                                       *)
(***************************************************************************)
\* _register: context is unsupported, and the rows must pair up
SubRegisterExc(configurations, scores, context) ==
    IF context # None THEN "NotImplementedError"
    ELSE IF Len(configurations) # Len(scores) THEN "ValueError"
    ELSE None

(***************************************************************************)
(* BaseOptimizer.register                                                  *)
(***************************************************************************)
\* (mutation of AppendObservation: the new entry is put in front)
AppendObservation_front(history, configurations, scores, context) ==
    <<<<configurations, scores, context>>>> \o history

\* line 60
AppendObservation(history, configurations, scores, context) ==
    Append(history, <<configurations, scores, context>>)

\* (mutation of ToOptimizerSpace: the adapter is applied the wrong way round)
ToOptimizerSpace_forward(adapter, configurations) ==
    IF adapter # NoAdapter THEN transform(configurations) ELSE configurations

\* lines 62-63
ToOptimizerSpace(adapter, configurations) ==
    IF adapter # NoAdapter THEN inverse_transform(configurations) ELSE configurations

\* (mutation of RegisterOutcome: the subclass's error is swallowed)
RegisterOutcome_swallow(exc) == Returned("register", <<>>)

\* line 64: whatever _register raises propagates to the caller
RegisterOutcome(exc) ==
    IF exc = None THEN Returned("register", <<>>) ELSE Raised("register", exc)

Register(configurations, scores, context) ==
    /\ constructed = "ok"
    /\ Len(observations) < MaxObs
    /\ register_log' = Append(register_log, <<configurations, scores, context>>)
    /\ observations' = AppendObservation(observations, configurations, scores, context)
    /\ LET target == ToOptimizerSpace(space_adapter, configurations)
           exc == SubRegisterExc(target, scores, context)
       IN  /\ sub_register_args' = <<target, scores, context>>
           /\ model_data' = IF exc = None
                            THEN Append(model_data, <<target, scores>>)
                            ELSE model_data
           /\ ret' = RegisterOutcome(exc)
    /\ UNCHANGED <<constructed, parameter_space, optimizer_parameter_space,
                   space_adapter, pending_observations, sub_suggested, init_args>>
    /\ UNCHANGED forest_vars

(***************************************************************************)
(* BaseOptimizer.suggest                                                   *)
(***************************************************************************)
\* lines 97-98
ToOriginalSpace(adapter, configuration) ==
    IF adapter # NoAdapter THEN transform(configuration) ELSE configuration

\* the configurations the subclass searches: the optimizer's own space
SearchSpace ==
    IF space_adapter # NoAdapter THEN TargetConfigs ELSE Configs

Suggest(x) ==
    /\ constructed = "ok"
    /\ sub_suggested' = <<x>>
    /\ ret' = Returned("suggest", ToOriginalSpace(space_adapter, <<x>>))
    /\ UNCHANGED <<constructed, parameter_space, optimizer_parameter_space,
                   space_adapter, observations, pending_observations,
                   sub_register_args, model_data, init_args, register_log>>
    /\ UNCHANGED forest_vars

(***************************************************************************)
(* register_pending (subclass): records the configurations as in flight    *)
(***************************************************************************)
RegisterPending(configurations) ==
    /\ constructed = "ok"
    /\ Len(pending_observations) < MaxPending
    /\ pending_observations' = Append(pending_observations, configurations)
    /\ ret' = Returned("register_pending", <<>>)
    /\ UNCHANGED <<constructed, parameter_space, optimizer_parameter_space,
                   space_adapter, observations, sub_register_args, sub_suggested,
                   model_data, init_args, register_log>>
    /\ UNCHANGED forest_vars

(***************************************************************************)
(* BaseOptimizer.get_observations                                          *)
(***************************************************************************)
\* line 143 / 144 / 146: the k-th component of every history entry
Column(history, k) == [i \in 1 .. Len(history) |-> history[i][k]]

\* lines 145-148: pd.concat raises ValueError when every entry is None
ContextsOf(history) ==
    IF NotNone(Column(history, 3)) = <<>> THEN None ELSE "contexts"

\* line 149: configs["score"] = scores aligns the scores on the index labels
\* of configs.  Equal indexes: the values are taken by position.  Otherwise
\* the scores are reindexed: impossible when their labels repeat, and a
\* label without a score gives a missing value (an empty score).
ScoreColumnFails(cfgIndex, scoreIndex) ==
    cfgIndex # scoreIndex /\ ~IsUnique(scoreIndex)

ScoreAt(scores, scoreIndex, label) ==
    IF \E j \in 1 .. Len(scores) : scoreIndex[j] = label
    THEN <<scores[CHOOSE j \in 1 .. Len(scores) : scoreIndex[j] = label]>>
    ELSE <<>>

WithScoreColumn(configs, cfgIndex, scores, scoreIndex) ==
    [i \in 1 .. Len(configs) |->
        [config |-> configs[i],
         score |-> IF cfgIndex = scoreIndex THEN <<scores[i]>>
                   ELSE ScoreAt(scores, scoreIndex, cfgIndex[i])]]

\* (mutation of get_observations: the emptiness check of line 141 is left out)
get_observations_unchecked(history) ==
    Returned("get_observations", <<>>)

IndexOf(history, k) ==
    Concat([i \in 1 .. Len(history) |-> RangeIndex(history[i][k])])

get_observations(history) ==
    IF Len(history) = 0 THEN Raised("get_observations", "NoObservations")
    ELSE LET configs == Concat(Column(history, 1))
             scores == Concat(Column(history, 2))
             contexts == ContextsOf(history)
         IN  IF ScoreColumnFails(IndexOf(history, 1), IndexOf(history, 2))
             THEN Raised("get_observations", "ValueError")
             ELSE IF contexts # None
             THEN Raised("get_observations", "NotImplementedError")
             ELSE Returned("get_observations",
                           WithScoreColumn(configs, IndexOf(history, 1),
                                           scores, IndexOf(history, 2)))

\* (mutation of StoredAfterRead: reading takes the oldest entry out of the
\* history)
StoredAfterRead_pop(history) == SubSeq(history, 2, Len(history))

\* lines 143-149: pd.concat builds a new table and the score column of line
\* 149 is added to that table, so that self._observations and the tables it
\* holds are after the call what they were before it
StoredAfterRead(history) == history

GetObservations ==
    /\ constructed = "ok"
    /\ ret' = get_observations(observations)
    /\ observations' = StoredAfterRead(observations)
    /\ UNCHANGED <<constructed, parameter_space, optimizer_parameter_space,
                   space_adapter, pending_observations,
                   sub_register_args, sub_suggested, model_data, init_args,
                   register_log>>
    /\ UNCHANGED forest_vars

(***************************************************************************)
(* BaseOptimizer.get_best_observation                                      *)
(***************************************************************************)
HasScore(row) == row.score # <<>>

\* DataFrame.nsmallest(1, columns='score'), keep='first': the first of the
\* rows with the least score, as a one-row table
Smaller(r, q) == r.score[1] < q.score[1]

IsFirstSmallest(table, i) ==
    /\ HasScore(table[i])
    /\ \A j \in 1 .. Len(table) :
          HasScore(table[j]) =>
             /\ ~Smaller(table[j], table[i])
             /\ (j < i => Smaller(table[i], table[j]))

\* rows without a score sort last: one is returned only when no row has a score
nsmallest1(table) ==
    IF \E i \in 1 .. Len(table) : HasScore(table[i])
    THEN {<<table[CHOOSE i \in 1 .. Len(table) : IsFirstSmallest(table, i)]>>}
    ELSE {<<table[1]>>, <<>>}

get_best_observation(history) ==
    IF Len(history) = 0
    THEN {Raised("get_best_observation", "NoObservations")}
    ELSE LET obs == get_observations(history)
         IN  IF obs.exc # None
             THEN {Raised("get_best_observation", obs.exc)}
             ELSE {Returned("get_best_observation", best) : best \in nsmallest1(obs.val)}

GetBestObservation ==
    /\ constructed = "ok"
    /\ ret' \in get_best_observation(observations)
    /\ observations' = StoredAfterRead(observations)
    /\ UNCHANGED <<constructed, parameter_space, optimizer_parameter_space,
                   space_adapter, pending_observations,
                   sub_register_args, sub_suggested, model_data, init_args,
                   register_log>>
    /\ UNCHANGED forest_vars

(***************************************************************************)
(* Specification of the optimizer                                          *)
(***************************************************************************)
NoCall == [op |-> "none"]

\* the forest is not part of the optimizer's runs
ForestIdle ==
    /\ samples_fraction = <<1, 1>>
    /\ trees = <<>>
    /\ np_random = 0
    /\ nfits = 0
    /\ prev_fit = NoCall
    /\ last_fit = NoCall
    /\ npredicts = 0
    /\ predictions = NoCall

Init ==
    /\ ForestIdle
    /\ constructed = "no"
    /\ parameter_space = None
    /\ optimizer_parameter_space = None
    /\ space_adapter = NoAdapter
    /\ observations = <<>>
    /\ pending_observations = <<>>
    /\ sub_register_args = <<>>
    /\ sub_suggested = <<>>
    /\ model_data = <<>>
    /\ init_args = <<>>
    /\ register_log = <<>>
    /\ ret = Returned("none", <<>>)

Next ==
    \/ \E adapter \in Adapters : Construct(ParameterSpace, adapter)
    \/ \E configurations \in Frames(Configs), scores \in Frames(Scores),
          context \in Contexts : Register(configurations, scores, context)
    \/ \E x \in SearchSpace : Suggest(x)
    \/ \E c \in Configs : RegisterPending(<<c>>)
    \/ GetObservations
    \/ GetBestObservation

Spec == Init /\ [][Next]_vars

(***************************************************************************)
(* HomogeneousRandomForestRegressionModel: the data                        *)
(***************************************************************************)
\* the dimensions of the (flat) input space, and a missing value
Dims == {"f1", "f2"}
NaN == "NaN"
Cells == {NaN, "1"}
FeatureRows == [Dims -> Cells]
FeatureFrames == UNION {[1 .. n -> FeatureRows] : n \in 0 .. MaxFitRows}

\* the target column that goes with a feature table: row r carries the value
\* r, so that a target value tells which row it came from
TargetsOf(features) == [r \in 1 .. Len(features) |-> r]

\* a fraction of the model configuration, as <<numerator, denominator>>
Fractions == {<<1, 2>>, <<1, 1>>}

CeilDiv(a, b) == (a + b - 1) \div b
Min(a, b) == IF a < b THEN a ELSE b
Max(a, b) == IF a < b THEN b ELSE a

(***************************************************************************)
(* numpy's global random source: a deterministic generator                *)
(***************************************************************************)
\* np.random.seed(i)
seed(i) == i % RngStates

NextRandom(state) == (2 * state + 1) % RngStates

RECURSIVE randint(_, _, _)
\* np.random.randint(0, high, size): size draws from 0 .. high-1, with
\* replacement; an empty draw takes nothing from the generator
randint(state, high, size) ==
    IF size = 0 THEN [ids |-> <<>>, state |-> state]
    ELSE LET drawn == NextRandom(state)
             rest == randint(drawn, high, size - 1)
         IN  [ids |-> <<drawn % high>> \o rest.ids, state |-> rest.state]

(***************************************************************************)
(* The members (DecisionTreeRegressionModel, consumed)                     *)
(***************************************************************************)
\* the least number of selected samples a member accepts for a fit
MinSamplesToFit == 2

should_fit(tree, num_selected) == num_selected >= MinSamplesToFit

\* tree.fit(X, Y): the member is trained on the pairs it is given
TreeFit(tree, pairs) == [tree EXCEPT !.fitted = TRUE, !.train = pairs]

NewTree(dims) == [input_dims |-> dims, fitted |-> FALSE, train |-> <<>>]

(***************************************************************************)
(* HomogeneousRandomForestRegressionModel.fit                              *)
(***************************************************************************)
\* line 218
ObservationsPerEstimator(fraction, total) ==
    CeilDiv(fraction[1] * total, fraction[2])

\* lines 226-227: the rows without a missing value in the member's
\* dimensions, as the positions they have in the input table
FilteredRows(features, dims) ==
    SelectSeq([r \in 1 .. Len(features) |-> r],
              LAMBDA r : \A d \in dims : features[r][d] # NaN)

\* line 226: a row projected on the member's dimensions
Project(row, dims) == [d \in dims |-> row[d]]

\* (mutation of SeedRng: the reseeding of line 230 is left out)
SeedRng_keep(i, state) == state

\* line 230: the state of the random source after np.random.seed(i)
SeedRng(i, state) == seed(i)

\* line 235: filtered_observations.iloc[ids] and target_values.iloc[ids];
\* ids are 0-based positions, xrow and yrow are the input rows they select
TrainingPairs(features, targets, filtered, dims, ids) ==
    [k \in 1 .. Len(ids) |->
        [x |-> Project(features[filtered[ids[k] + 1]], dims),
         xrow |-> filtered[ids[k] + 1],
         y |-> targets[ids[k] + 1],
         yrow |-> ids[k] + 1]]

\* (mutation of FitMember: a member that is not ready is reset)
FitMember_reset(i, tree, state, features, targets, per_estimator) ==
    LET filtered == FilteredRows(features, tree.input_dims)
        num_filtered == Len(filtered)
        draw == randint(SeedRng(i, state), num_filtered,
                        Min(num_filtered, per_estimator))
        ready == should_fit(tree, Len(draw.ids))
    IN  [tree |-> IF ready
                  THEN TreeFit(tree, TrainingPairs(features, targets, filtered,
                                                   tree.input_dims, draw.ids))
                  ELSE NewTree(tree.input_dims),
         state |-> draw.state,
         selected |-> draw.ids,
         fitted |-> ready]

\* lines 224-235: the body of the loop, for member i (counted from 0)
FitMember(i, tree, state, features, targets, per_estimator) ==
    LET filtered == FilteredRows(features, tree.input_dims)
        num_filtered == Len(filtered)
        draw == randint(SeedRng(i, state), num_filtered,
                        Min(num_filtered, per_estimator))
        ready == should_fit(tree, Len(draw.ids))
    IN  [tree |-> IF ready
                  THEN TreeFit(tree, TrainingPairs(features, targets, filtered,
                                                   tree.input_dims, draw.ids))
                  ELSE tree,
         state |-> draw.state,
         selected |-> draw.ids,
         fitted |-> ready]

RECURSIVE FitFrom(_, _, _, _, _, _)
\* line 223: the loop over the members, from member i on; it gives the
\* members, the state of the random source, and per member the selected ids
\* and whether it was fitted
FitFrom(i, members, state, features, targets, per_estimator) ==
    IF i >= Len(members)
    THEN [trees |-> members, state |-> state, selected |-> <<>>, fitted |-> <<>>]
    ELSE LET one == FitMember(i, members[i + 1], state, features, targets,
                              per_estimator)
             rest == FitFrom(i + 1, [members EXCEPT ![i + 1] = one.tree],
                             one.state, features, targets, per_estimator)
         IN  [trees |-> rest.trees,
              state |-> rest.state,
              selected |-> <<one.selected>> \o rest.selected,
              fitted |-> <<one.fitted>> \o rest.fitted]

\* lines 198-235: the model, the random source and the record of the call
\* after fit(features, targets) from the given state
AfterFit(members, state, fraction, features) ==
    LET targets == TargetsOf(features)
        per_estimator == ObservationsPerEstimator(fraction, Len(features))
        done == FitFrom(0, members, state, features, targets, per_estimator)
    IN  [trees |-> done.trees,
         np_random |-> done.state,
         call |-> [op |-> "fit", features |-> features, targets |-> targets,
                   selected |-> done.selected, fitted |-> done.fitted,
                   before |-> members, np_random_before |-> state,
                   exc |-> None]]

Fit(features) ==
    /\ nfits < MaxFits
    /\ LET after == AfterFit(trees, np_random, samples_fraction, features)
       IN  /\ trees' = after.trees
           /\ np_random' = after.np_random
           /\ last_fit' = after.call
    /\ prev_fit' = last_fit
    /\ nfits' = nfits + 1
    /\ UNCHANGED <<samples_fraction, npredicts, predictions>>
    /\ UNCHANGED optimizer_vars

(***************************************************************************)
(* Specification of fit                                                    *)
(***************************************************************************)
\* line 148
FeaturesPerEstimator(fraction) ==
    Max(1, CeilDiv(Cardinality(Dims) * fraction[1], fraction[2]))

\* lines 174-195: a random subspace of the wanted number of dimensions
Subspaces(size) == {D \in SUBSET Dims : Cardinality(D) = size}

OptimizerIdle ==
    /\ constructed = "no"
    /\ parameter_space = None
    /\ optimizer_parameter_space = None
    /\ space_adapter = NoAdapter
    /\ observations = <<>>
    /\ pending_observations = <<>>
    /\ sub_register_args = <<>>
    /\ sub_suggested = <<>>
    /\ model_data = <<>>
    /\ init_args = <<>>
    /\ register_log = <<>>
    /\ ret = Returned("none", <<>>)

\* lines 150-171: the members _create_estimators can build
NewForests ==
    UNION {[1 .. NEstimators ->
               {NewTree(D) : D \in Subspaces(FeaturesPerEstimator(features_fraction))}] :
           features_fraction \in Fractions}

\* the model after __init__ (lines 78-114): untrained members, each over its
\* own random subspace; the random source is in whatever state it was left
InitFit ==
    /\ OptimizerIdle
    /\ samples_fraction \in Fractions
    /\ trees \in NewForests
    /\ np_random \in 0 .. RngStates - 1
    /\ nfits = 0
    /\ prev_fit = NoCall
    /\ last_fit = NoCall
    /\ npredicts = 0
    /\ predictions = NoCall

NextFit == \E features \in FeatureFrames : Fit(features)

SpecFit == InitFit /\ [][NextFit]_vars

(***************************************************************************)
(* HomogeneousRandomForestRegressionModel.predict                          *)
(***************************************************************************)
\* the one target dimension (line 110-111), shared by all members
TargetName == "y"

\* numbers as fractions <<numerator, denominator>>, denominator > 0
Frac(n) == <<n, 1>>
FracSub(p, q) == <<p[1] * q[2] - q[1] * p[2], p[2] * q[2]>>
FracMul(p, q) == <<p[1] * q[1], p[2] * q[2]>>
FracEq(p, q) == p[1] * q[2] = q[1] * p[2]

RECURSIVE SumSeq(_)
SumSeq(numbers) ==
    IF numbers = <<>> THEN 0 ELSE Head(numbers) + SumSeq(Tail(numbers))

\* np.mean of a non-empty list
np_mean(numbers) == <<SumSeq(numbers), Len(numbers)>>

\* Prediction(target_name, valid=False): nothing but the target name
InvalidPrediction(target_name) == [target_name |-> target_name, valid |-> FALSE]

\* a member's prediction for one row
MemberPrediction(mean, variance) ==
    [target_name |-> TargetName, valid |-> TRUE, mean |-> mean, variance |-> variance]

\* what a member may predict for one row: nothing before it was fitted
RowPredictions(tree) ==
    IF tree.fitted
    THEN {InvalidPrediction(TargetName)} \cup
         {MemberPrediction(m, v) : m \in 0 .. MaxMean, v \in 0 .. MaxVariance}
    ELSE {InvalidPrediction(TargetName)}

RECURSIVE MemberPredictions(_, _)
\* line 255: one list of predictions per member, one prediction per row
MemberPredictions(members, num_rows) ==
    IF members = <<>> THEN {<<>>}
    ELSE {<<first>> \o rest :
             first \in [1 .. num_rows -> RowPredictions(Head(members))],
             rest \in MemberPredictions(Tail(members), num_rows)}

\* lines 257-262: the valid predictions of the members for one row
ValidPredictions(member_predictions, row) ==
    SelectSeq([e \in 1 .. Len(member_predictions) |-> member_predictions[e][row]],
              LAMBDA prediction : prediction.valid)

\* (mutation of CannotPredict: one invalid member makes the row invalid)
CannotPredict_any(valid_predictions, num_members) ==
    Len(valid_predictions) < num_members

\* line 263
CannotPredict(valid_predictions, num_members) ==
    valid_predictions = <<>>

\* lines 267-271
AggregateMean(valid_predictions) ==
    np_mean([k \in 1 .. Len(valid_predictions) |-> valid_predictions[k].mean])

\* (mutation of AggregateVariance: the variance of the means is forgotten)
AggregateVariance_within(valid_predictions, prediction_mean) ==
    np_mean([k \in 1 .. Len(valid_predictions) |-> valid_predictions[k].variance])

\* lines 272-276
AggregateVariance(valid_predictions, prediction_mean) ==
    FracSub(np_mean([k \in 1 .. Len(valid_predictions) |->
                        valid_predictions[k].variance
                          + valid_predictions[k].mean * valid_predictions[k].mean]),
            FracMul(prediction_mean, prediction_mean))

\* lines 257-282: the aggregate prediction for one row
AggregateRow(member_predictions, row) ==
    LET observation_predictions == ValidPredictions(member_predictions, row)
    IN  IF CannotPredict(observation_predictions, Len(member_predictions))
        THEN InvalidPrediction(TargetName)
        ELSE LET prediction_mean == AggregateMean(observation_predictions)
             IN  [target_name |-> observation_predictions[1].target_name,
                  valid |-> TRUE,
                  mean |-> prediction_mean,
                  variance |-> AggregateVariance(observation_predictions, prediction_mean),
                  count |-> Len(observation_predictions)]

\* lines 254-283
AggregatePredictions(member_predictions, num_rows) ==
    [row \in 1 .. num_rows |-> AggregateRow(member_predictions, row)]

\* the rows to predict for: none of them has a missing value
QueryFrames == UNION {[1 .. n -> {row \in FeatureRows : \A d \in Dims : row[d] # NaN}] :
                         n \in 0 .. MaxPredictRows}

Predict(query, member_predictions) ==
    /\ npredicts < MaxPredicts
    /\ npredicts' = npredicts + 1
    /\ predictions' = [op |-> "predict", query |-> query,
                       members |-> member_predictions,
                       val |-> AggregatePredictions(member_predictions, Len(query)),
                       exc |-> None]
    /\ UNCHANGED <<samples_fraction, trees, np_random, nfits, prev_fit, last_fit>>
    /\ UNCHANGED optimizer_vars

(***************************************************************************)
(* Specification of predict                                                *)
(***************************************************************************)
\* the tables the model was fitted on before the predictions: none, or two
\* equal rows (so that a member is either fitted or skipped)
TrainingTables ==
    {features \in FeatureFrames :
        Len(features) = 2 /\ features[1] = features[2]}

\* the model after __init__, or after __init__ and one fit
InitPredict ==
    /\ OptimizerIdle
    /\ samples_fraction = <<1, 1>>
    /\ npredicts = 0
    /\ predictions = NoCall
    /\ prev_fit = NoCall
    /\ \E members \in NewForests, state \in 0 .. RngStates - 1 :
          \/ /\ trees = members
             /\ np_random = state
             /\ nfits = 0
             /\ last_fit = NoCall
          \/ \E features \in TrainingTables :
                LET after == AfterFit(members, state, <<1, 1>>, features)
                IN  /\ trees = after.trees
                    /\ np_random = after.np_random
                    /\ nfits = 1
                    /\ last_fit = after.call

NextPredict ==
    \E query \in QueryFrames :
       \E member_predictions \in MemberPredictions(trees, Len(query)) :
          Predict(query, member_predictions)

SpecPredict == InitPredict /\ [][NextPredict]_vars

(***************************************************************************)
(* Properties of the optimizer                                             *)
(***************************************************************************)
RegisterCalls == Len(register_log)
ConfigColumn(table) == [i \in 1 .. Len(table) |-> table[i].config]
ScoreColumn(table) == [i \in 1 .. Len(table) |-> table[i].score]
Boxed(scores) == [i \in 1 .. Len(scores) |-> <<scores[i]>>]
RowCountsMatch(log) == \A i \in 1 .. Len(log) : Len(log[i][1]) = Len(log[i][2])
LastCall == register_log[Len(register_log)]
GivenAdapter == init_args[2]

C2_BestIsFirstMinimum ==
    (ret.op = "get_best_observation" /\ observations # <<>>
        /\ RowCountsMatch(observations)) =>
        /\ ret.exc = None
        /\ Len(ret.val) = 1
        /\ LET all == get_observations(observations).val
           IN  \E i \in 1 .. Len(all) :
                  /\ ret.val[1] = all[i]
                  /\ HasScore(all[i])
                  /\ \A j \in 1 .. Len(all) :
                        /\ HasScore(all[j])
                        /\ all[i].score[1] <= all[j].score[1]
                        /\ (j < i => all[j].score[1] > all[i].score[1])

\* C3: with no register call made yet, get_observations() and
\* get_best_observation() fail with the "no observations" error, however many
\* suggest and register_pending calls came before: the history stays empty.
C3_EmptyHistoryFails ==
    RegisterCalls = 0 =>
        /\ observations = <<>>
        /\ ret.op \in {"get_observations", "get_best_observation"} =>
              ret.exc = "NoObservations"

C3_Witness ==
    /\ ret.op = "get_observations"
    /\ ret.exc = "NoObservations"
    /\ RegisterCalls = 0
    /\ pending_observations # <<>>
    /\ sub_suggested # <<>>

C5_AdapterDirection ==
    /\ ret.op = "register" =>
          /\ observations[Len(observations)][1] = LastCall[1]
          /\ sub_register_args[2] = LastCall[2]
          /\ sub_register_args[1] =
                IF GivenAdapter # NoAdapter THEN inverse_transform(LastCall[1])
                ELSE LastCall[1]
    /\ ret.op = "suggest" =>
          /\ Len(sub_suggested) = 1
          /\ ret.exc = None
          /\ ret.val = IF GivenAdapter # NoAdapter THEN transform(sub_suggested)
                       ELSE sub_suggested

C5_Witness ==
    /\ ret.op = "register"
    /\ ret.exc = None
    /\ GivenAdapter # NoAdapter
    /\ LastCall[1] = <<"a", "b">>
    /\ sub_register_args[1] = <<"x", "y">>
    /\ sub_suggested = <<"y">>

\* C6: constructing with an adapter whose orig_parameter_space differs from
\* the given parameter_space fails with a configuration error and gives no
\* usable optimizer; otherwise construction succeeds with empty observation
\* and pending lists and optimizer_parameter_space is the adapter's
\* target_parameter_space, or parameter_space when there is no adapter.
C6_Construction ==
    /\ ret.op = "__init__" =>
          IF GivenAdapter # NoAdapter /\ GivenAdapter.orig_parameter_space # init_args[1]
          THEN constructed = "failed" /\ ret.exc = "ValueError"
          ELSE /\ constructed = "ok"
               /\ ret.exc = None
               /\ observations = <<>>
               /\ pending_observations = <<>>
               /\ parameter_space = init_args[1]
               /\ optimizer_parameter_space =
                     IF GivenAdapter = NoAdapter THEN init_args[1]
                     ELSE GivenAdapter.target_parameter_space
    /\ constructed = "failed" => ret.op = "__init__"

C6_Witness ==
    /\ constructed = "failed"
    /\ ret.exc = "ValueError"
    /\ GivenAdapter.orig_parameter_space = "Q"

\* the calls that only read the optimizer's state
ReadOnlyCalls == {"suggest", "get_observations", "get_best_observation"}

\* C12: suggest, get_observations and get_best_observation leave the
\* observation history and the pending list as they were (same entries, same
\* order, same stored configurations and scores), and register leaves the
\* pending list as it was; what get_observations returns is determined by the
\* register calls made so far alone, so that two calls with no register in
\* between return equal tables.
C12_ReadOnly ==
    /\ [][ret'.op \in ReadOnlyCalls =>
            UNCHANGED <<observations, pending_observations>>]_vars
    /\ [][ret'.op = "register" => UNCHANGED pending_observations]_vars
    /\ [][(ret.op = "get_observations" /\ ret'.op = "get_observations") =>
            ret' = ret]_vars
    /\ [](ret.op = "get_observations" => ret = get_observations(register_log))

\* get_observations returns a table of a history of two entries, a
\* configuration being pending and one having been suggested
C12_Witness ==
    /\ ret.op = "get_observations"
    /\ ret.exc = None
    /\ Len(ret.val) >= 2
    /\ Len(observations) = 2
    /\ observations = register_log
    /\ pending_observations # <<>>
    /\ sub_suggested # <<>>

\* the history entry i as the subclass receives it
Forwarded(i) ==
    <<ToOptimizerSpace(space_adapter, observations[i][1]), observations[i][2]>>

\* C13: a register call that ends in an error (a context was supplied, or the
\* configurations and the scores differ in their row counts) leaves the
\* observation history as it was, so that get_observations() and
\* get_best_observation() behave after it as they did before it, and the
\* history holds only the observations that the subclass also took.
C13_FailedRegisterLeavesHistory ==
    /\ [][(ret'.op = "register" /\ ret'.exc # None) =>
            /\ observations' = observations
            /\ get_observations(observations') = get_observations(observations)
            /\ get_best_observation(observations') = get_best_observation(observations)]_vars
    /\ [](/\ Len(observations) = Len(model_data)
          /\ \A i \in 1 .. Len(observations) : Forwarded(i) = model_data[i])

(***************************************************************************)
(* Properties of fit                                                       *)
(***************************************************************************)
Members == 1 .. NEstimators

\* the number of rows member i draws from the table of a fit call
DrawSize(call, i) ==
    Min(Len(FilteredRows(call.features, call.before[i].input_dims)),
        ObservationsPerEstimator(samples_fraction, Len(call.features)))

\* C9: fit is deterministic per member.  Two fit calls on identical data give
\* every member the identical sequence of selected rows, whatever state the
\* random source was in before either call; and the rows selected for member
\* i are those drawn right after seeding with i, so they depend on the
\* member's index and on the data alone, not on the members handled before.
C9_FitDeterministicPerMember ==
    /\ (last_fit.op = "fit" /\ prev_fit.op = "fit"
          /\ prev_fit.features = last_fit.features
          /\ prev_fit.targets = last_fit.targets) =>
             prev_fit.selected = last_fit.selected
    /\ last_fit.op = "fit" =>
          \A i \in Members :
             last_fit.selected[i] =
                randint(seed(i - 1),
                        Len(FilteredRows(last_fit.features, last_fit.before[i].input_dims)),
                        DrawSize(last_fit, i)).ids

C9_Witness ==
    /\ last_fit.op = "fit"
    /\ prev_fit.op = "fit"
    /\ prev_fit.features = last_fit.features
    /\ prev_fit.np_random_before # last_fit.np_random_before
    /\ \A i \in Members : Len(last_fit.selected[i]) >= 2
    /\ last_fit.selected[1] # last_fit.selected[2]

\* C10: fit degrades per member.  A member whose rows, after the rows with a
\* missing value in its own dimensions are dropped, are too few for its
\* readiness check (zero rows included) is left exactly as it was, no error
\* is raised, and every member whose readiness check passes is fitted in the
\* same call.
C10_FitDegradesPerMember ==
    last_fit.op = "fit" =>
        /\ last_fit.exc = None
        /\ \A i \in Members :
              IF should_fit(last_fit.before[i], DrawSize(last_fit, i))
              THEN /\ last_fit.fitted[i]
                   /\ trees[i].fitted
                   /\ Len(trees[i].train) = DrawSize(last_fit, i)
              ELSE /\ ~last_fit.fitted[i]
                   /\ trees[i] = last_fit.before[i]

\* a member trained by an earlier call is skipped with no row left, while the
\* other member is fitted again
C10_Witness ==
    /\ last_fit.op = "fit"
    /\ prev_fit.op = "fit"
    /\ \E i, j \in Members :
          /\ FilteredRows(last_fit.features, trees[i].input_dims) = <<>>
          /\ ~last_fit.fitted[i]
          /\ trees[i].fitted
          /\ trees[i] = last_fit.before[i]
          /\ last_fit.fitted[j]
          /\ trees[j] # last_fit.before[j]

\* a training pair whose feature row and target row are the same row of the
\* input tables, the feature row being complete in the member's dimensions
AlignedPair(call, dims, pair) ==
    /\ pair.xrow = pair.yrow
    /\ pair.xrow \in 1 .. Len(call.features)
    /\ pair.x = Project(call.features[pair.xrow], dims)
    /\ pair.y = call.targets[pair.xrow]
    /\ \A d \in dims : call.features[pair.xrow][d] # NaN

\* C11: every member fitted by a fit call receives
\* min(filtered_row_count, ceil(samples_fraction_per_estimator * total_rows))
\* training pairs, and each pair is a feature row and a target row that come
\* from the same row of the input tables, the feature row having no missing
\* value in the member's dimensions; also when rows were dropped for that
\* member because of missing values.
C11_TrainingPairsAligned ==
    last_fit.op = "fit" =>
        \A i \in Members :
            last_fit.fitted[i] =>
                /\ Len(trees[i].train) = DrawSize(last_fit, i)
                /\ \A k \in 1 .. Len(trees[i].train) :
                      AlignedPair(last_fit, trees[i].input_dims, trees[i].train[k])

\* C11, on the tables in which no row is dropped for any member: there the
\* positions among the filtered rows are the positions in the input tables,
\* and every pair is aligned
C11_AlignedWhenNothingDropped ==
    (last_fit.op = "fit"
        /\ \A i \in Members :
              Len(FilteredRows(last_fit.features, trees[i].input_dims))
                 = Len(last_fit.features)) =>
        \A i \in Members :
            last_fit.fitted[i] =>
                /\ Len(trees[i].train) = DrawSize(last_fit, i)
                /\ \A k \in 1 .. Len(trees[i].train) :
                      AlignedPair(last_fit, trees[i].input_dims, trees[i].train[k])

(***************************************************************************)
(* Properties of predict                                                  *)
(***************************************************************************)
\* the members whose prediction for the row is valid
ValidMembers(row) ==
    {e \in 1 .. Len(predictions.members) : predictions.members[e][row].valid}

RECURSIVE SumMeans(_, _)
SumMeans(members, row) ==
    IF members = {} THEN 0
    ELSE LET e == CHOOSE e \in members : TRUE
         IN  predictions.members[e][row].mean + SumMeans(members \ {e}, row)

RECURSIVE SumSecondMoments(_, _)
SumSecondMoments(members, row) ==
    IF members = {} THEN 0
    ELSE LET e == CHOOSE e \in members : TRUE
             p == predictions.members[e][row]
         IN  p.variance + p.mean * p.mean + SumSecondMoments(members \ {e}, row)

\* C7: predict returns one Prediction per input row, in row order; a row with
\* at least one valid member prediction gets a valid Prediction whose mean is
\* the arithmetic mean of the valid members' means, whose variance is
\* mean(variance + mean^2) over the valid members minus mean^2, and whose
\* count is the number of valid members; if every member predicts
\* (mean = m, variance = 0) the aggregate is (m, 0, n_estimators).
C7_AggregatePrediction ==
    predictions.op = "predict" =>
        /\ Len(predictions.val) = Len(predictions.query)
        /\ \A row \in 1 .. Len(predictions.query) :
              LET valid == ValidMembers(row)
                  n == Cardinality(valid)
                  aggregate == predictions.val[row]
              IN  /\ valid # {} =>
                        /\ aggregate.valid
                        /\ FracEq(aggregate.mean, <<SumMeans(valid, row), n>>)
                        /\ FracEq(aggregate.variance,
                                  <<n * SumSecondMoments(valid, row)
                                      - SumMeans(valid, row) * SumMeans(valid, row),
                                    n * n>>)
                        /\ aggregate.count = n
                  /\ \A m \in 0 .. MaxMean :
                        (\A e \in 1 .. NEstimators :
                            predictions.members[e][row] = MemberPrediction(m, 0)) =>
                           /\ FracEq(aggregate.mean, Frac(m))
                           /\ FracEq(aggregate.variance, Frac(0))
                           /\ aggregate.count = NEstimators

\* two rows: the members disagree on the first, and only one of them has a
\* valid prediction for the second
C7_Witness ==
    /\ predictions.op = "predict"
    /\ Len(predictions.query) = 2
    /\ Cardinality(ValidMembers(1)) = NEstimators
    /\ predictions.members[1][1].mean # predictions.members[2][1].mean
    /\ predictions.members[1][1].variance = 1
    /\ Cardinality(ValidMembers(2)) = 1
    /\ predictions.val[1].count = NEstimators
    /\ predictions.val[2].count = 1

\* C8: predict never raises for valid input rows, whatever the fit history of
\* the members; a row for which every member's prediction is invalid gets an
\* aggregate Prediction with valid = false that carries the target name
\* only, and a row is marked invalid in that case only.
C8_InvalidOnlyWithoutValidMember ==
    predictions.op = "predict" =>
        /\ predictions.exc = None
        /\ Len(predictions.val) = Len(predictions.query)
        /\ \A row \in 1 .. Len(predictions.query) :
              /\ ~predictions.val[row].valid <=> ValidMembers(row) = {}
              /\ ~predictions.val[row].valid =>
                    predictions.val[row] = [target_name |-> TargetName, valid |-> FALSE]

\* after a fit that skipped a member: no member predicts the first row, the
\* fitted member alone predicts the second
C8_Witness ==
    /\ predictions.op = "predict"
    /\ nfits = 1
    /\ \E e \in 1 .. NEstimators : ~trees[e].fitted /\ ~last_fit.fitted[e]
    /\ Len(predictions.query) = 2
    /\ ValidMembers(1) = {}
    /\ ~predictions.val[1].valid
    /\ Cardinality(ValidMembers(2)) = 1
    /\ predictions.val[2].valid

====
